---- MODULE Spec2Model ----
(***************************************************************************)
(* OLI Error Assistant, background service (src/entrypoints/background.ts). *)
(* The KB store (cache / remote / bundled resolution), the two matchers    *)
(* (scoreMatch of OLI_MATCH_ERROR, the exact / fuzzy tiers of              *)
(* OLI_MATCH_ERROR_V2) and the four message handlers.                      *)
(*                                                                         *)
(* Strings are sequences of one-character strings.  Scores are integers in *)
(* hundredths (1.0 = 100, 0.95 = 95, 0.85 = 85, 0.55 + 0.08 = 63).         *)
(* An optional value (undefined / null in the source) is the empty         *)
(* sequence, a present value x is <<x>>.  Times are milliseconds.          *)
(***************************************************************************)
EXTENDS Integers, Sequences, FiniteSets, TLC

VARIABLES now, bundled, storage, pc, msg, writing, kb, resp, io, lastSave

vars == <<now, bundled, storage, pc, msg, writing, kb, resp, io, lastSave>>

None == <<>>

Some(x) == <<x>>

Max(a, b) == IF a >= b THEN a ELSE b

Min(a, b) == IF a <= b THEN a ELSE b

(***************************************************************************)
(* String primitives of the JavaScript runtime, as the code uses them.     *)
(***************************************************************************)
UpperCase ==
    <<"A", "B", "C", "D", "E", "F", "G", "H", "I", "J", "K", "L", "M", "N", "O", "P", "Q", "R", "S", "T", "U", "V", "W", "X", "Y", "Z">>

LowerCase ==
    <<"a", "b", "c", "d", "e", "f", "g", "h", "i", "j", "k", "l", "m", "n", "o", "p", "q", "r", "s", "t", "u", "v", "w", "x", "y", "z">>

Digits ==
    <<"0", "1", "2", "3", "4", "5", "6", "7", "8", "9">>

Range(s) == {s[i] : i \in 1..Len(s)}

\* the characters /\s/ matches, among those the inputs use
WhiteSpace == {" ", "\n", "\t"}

\* /[a-z0-9_]/
WordChars == Range(LowerCase) \cup Range(Digits) \cup {"_"}

LowerOf(c) ==
    IF \E i \in 1..Len(UpperCase) : UpperCase[i] = c
    THEN LowerCase[CHOOSE i \in 1..Len(UpperCase) : UpperCase[i] = c]
    ELSE c

toLowerCase(s) == [i \in 1..Len(s) |-> LowerOf(s[i])]

RECURSIVE DropLeadingWs(_)
DropLeadingWs(s) ==
    IF s # <<>> /\ Head(s) \in WhiteSpace THEN DropLeadingWs(Tail(s)) ELSE s

RECURSIVE DropTrailingWs(_)
DropTrailingWs(s) ==
    IF s # <<>> /\ s[Len(s)] \in WhiteSpace
    THEN DropTrailingWs(SubSeq(s, 1, Len(s) - 1))
    ELSE s

\* String.prototype.trim
trim(s) == DropTrailingWs(DropLeadingWs(s))

\* s.replace(/\s+/g, " "): every maximal run of whitespace becomes one space
RECURSIVE replaceWhitespaceRuns(_)
replaceWhitespaceRuns(s) ==
    IF s = <<>> THEN <<>>
    ELSE IF Head(s) \in WhiteSpace
         THEN <<" ">> \o replaceWhitespaceRuns(DropLeadingWs(Tail(s)))
         ELSE <<Head(s)>> \o replaceWhitespaceRuns(Tail(s))

\* String.prototype.includes
includes(s, sub) ==
    \E i \in 0..(Len(s) - Len(sub)) : SubSeq(s, i + 1, i + Len(sub)) = sub

\* s.split(<one or more characters outside keep>).filter(Boolean): the maximal
\* runs of characters of keep, in order
RECURSIVE SplitRuns(_, _, _)
SplitRuns(s, cur, keep) ==
    IF s = <<>> THEN (IF cur = <<>> THEN <<>> ELSE <<cur>>)
    ELSE IF Head(s) \in keep
         THEN SplitRuns(Tail(s), Append(cur, Head(s)), keep)
         ELSE (IF cur = <<>> THEN <<>> ELSE <<cur>>) \o SplitRuns(Tail(s), <<>>, keep)

\* toks.flatMap(x => x.split("_").filter(Boolean))
RECURSIVE flatMapSplitUnderscore(_)
flatMapSplitUnderscore(toks) ==
    IF toks = <<>> THEN <<>>
    ELSE SplitRuns(Head(toks), <<>>, WordChars \ {"_"})
         \o flatMapSplitUnderscore(Tail(toks))

\* k.replace(/_/g, "")
removeUnderscores(k) == SelectSeq(k, LAMBDA c : c # "_")

(***************************************************************************)
(* new RegExp(p, "i").test(raw) for the pattern forms the KB entries below *)
(* use: a literal, the wildcards .* and ^.*$, the empty-string matcher ^$  *)
(* and a pattern that does not compile (an unclosed group).                *)
(***************************************************************************)
DotStar == <<".", "*">>

AnchoredDotStar == <<"^", ".", "*", "$">>

AnchoredEmpty == <<"^", "$">>

Count(s, c) == Cardinality({i \in 1..Len(s) : s[i] = c})

\* new RegExp(p) throws a SyntaxError
RegExpThrows(p) == Count(p, "(") # Count(p, ")")

\* re.test(raw) of a pattern that compiled; "." does not match a line
\* terminator and, without the m flag, ^ and $ are the ends of the input
RegExpTest(p, raw) ==
    IF p = DotStar THEN TRUE
    ELSE IF p = AnchoredDotStar THEN "\n" \notin Range(raw)
    ELSE IF p = AnchoredEmpty THEN raw = <<>>
    ELSE includes(toLowerCase(raw), toLowerCase(p))


(***************************************************************************)
(* The KB entries and error texts the model draws its inputs from.  An     *)
(* entry is named by its position in this catalogue (its id).              *)
(***************************************************************************)

Title1 ==
    <<"I", "n", "v", "a", "l", "i", "d", " ", "p", "o", "s", "t", "a", "l", " ", "c", "o", "d", "e", " ", "f", "o", "r", " ", "c", "a", "r", "r", "i", "e", "r">>

Patterns1 ==
    << <<"i", "n", "v", "a", "l", "i", "d", " ", "p", "o", "s", "t", "c", "o", "d", "e">> >>

Title2 ==
    <<"E", "r", "r", "o", "r">>

Patterns2 ==
    << <<".", "*">> >>

Title3 ==
    <<"I", "n", "v", "a", "l", "i", "d", " ", "a", "d", "d", "r", "e", "s", "s", " ", "f", "o", "r", " ", "d", "e", "l", "i", "v", "e", "r", "y">>

Patterns3 ==
    << <<"^", ".", "*", "$">> >>

Title4 ==
    <<"C", "a", "r", "r", "i", "e", "r">>

Patterns4 ==
    << <<"(">> >>

Title5 ==
    <<"I", "n", "v", "a", "l", "i", "d", " ", "H", "S", " ", "c", "o", "d", "e">>

Patterns5 ==
    << <<"^", "$">> >>

Title6 ==
    <<"I", "n", "v", "a", "l", "i", "d", " ", "h", "o", "u", "s", "e", "_", "n", "u", "m", "b", "e", "r", " ", "i", "n", " ", "a", "d", "d", "r", "e", "s", "s">>

Patterns6 ==
    << <<"h", "o", "u", "s", "e", " ", "n", "u", "m", "b", "e", "r">>,
       <<"(">> >>

Title7 ==
    <<"I", "n", "v", "a", "l", "i", "d", " ", "e", "m", "a", "i", "l", " ", "o", "r", " ", "p", "h", "o", "n", "e">>

Patterns7 ==
    << <<"i", "n", "v", "a", "l", "i", "d", " ", "e", "m", "a", "i", "l">> >>

Title8 ==
    <<"I", "n", "v", "a", "l", "i", "d", " ", "w", "e", "i", "g", "h", "t", " ", "o", "r", " ", "d", "i", "m", "e", "n", "s", "i", "o", "n">>

Patterns8 ==
    << <<"E", "x", "c", "e", "e", "d", "s", " ", "W", "e", "i", "g", "h", "t">> >>

Title9 ==
    <<"M", "i", "s", "s", "i", "n", "g", " ", "h", "o", "u", "s", "e", "n", "u", "m", "b", "e", "r", " ", "s", "t", "r", "e", "e", "t", " ", "c", "i", "t", "y", " ", "z", "i", "p", " ", "o", "r", " ", "c", "o", "u", "n", "t", "r", "y">>

Patterns9 ==
    << <<"m", "i", "s", "s", "i", "n", "g", " ", "h", "o", "u", "s", "e", "n", "u", "m", "b", "e", "r">> >>

Titles == <<Title1, Title2, Title3, Title4, Title5, Title6, Title7, Title8, Title9>>

PatternLists ==
    <<Patterns1, Patterns2, Patterns3, Patterns4, Patterns5, Patterns6, Patterns7, Patterns8,
      Patterns9>>

Items == 1..Len(Titles)

\* it.title, it.patterns
TitleOf(it) == Titles[it]

PatternsOf(it) == PatternLists[it]

Text0 ==
    <<>>

Text1 ==
    <<"S", "e", "n", "d", "C", "l", "o", "u", "d", " ", "l", "a", "b", "e", "l", " ", "c", "r", "e", "a", "t", "i", "o", "n", " ", "f", "a", "i", "l", "e", "d", ":", " ", "i", "n", "v", "a", "l", "i", "d", " ", "p", "o", "s", "t", "c", "o", "d", "e">>

Text2 ==
    <<" ", " ", "I", "n", "v", "a", "l", "i", "d", " ", "P", "o", "s", "t", "a", "l", "\n", " ", "c", "o", "d", "e", " ", " ", "f", "o", "r", " ", "C", "a", "r", "r", "i", "e", "r", " ">>

Text3 ==
    <<"I", "n", "v", "a", "l", "i", "d">>

Text4 ==
    <<"U", "n", "k", "n", "o", "w", "n", " ", "e", "r", "r", "o", "r", ":", " ", "p", "o", "s", "t", "c", "o", "d", "e", " ", "a", "n", "d", " ", "a", "d", "d", "r", "e", "s", "s", " ", "r", "e", "j", "e", "c", "t", "e", "d">>

Text5 ==
    <<"E", "x", "c", "e", "e", "d", "s", " ", "w", "e", "i", "g", "h", "t", " ", "l", "i", "m", "i", "t", " ", "f", "o", "r", " ", "c", "a", "r", "r", "i", "e", "r", " ", "s", "e", "r", "v", "i", "c", "e">>

Text6 ==
    <<"h", "o", "u", "s", "e", "n", "u", "m", "b", "e", "r", " ", "r", "e", "q", "u", "i", "r", "e", "d">>

Text7 ==
    <<"I", "n", "c", "o", "m", "p", "l", "e", "t", "e", ":", " ", "c", "o", "u", "n", "t", "r", "y", " ", "z", "i", "p", " ", "c", "i", "t", "y", " ", "s", "t", "r", "e", "e", "t", " ", "h", "o", "u", "s", "e", "n", "u", "m", "b", "e", "r">>

ErrorTexts == {Text0, Text1, Text2, Text3, Text4, Text5, Text6, Text7}

keywords ==
    << <<"h", "o", "u", "s", "e", "_", "n", "u", "m", "b", "e", "r">>,
       <<"h", "o", "u", "s", "e", "n", "u", "m", "b", "e", "r">>,
       <<"s", "t", "r", "e", "e", "t">>,
       <<"a", "d", "d", "r", "e", "s", "s">>,
       <<"p", "o", "s", "t", "a", "l">>,
       <<"p", "o", "s", "t", "c", "o", "d", "e">>,
       <<"z", "i", "p">>,
       <<"c", "i", "t", "y">>,
       <<"s", "t", "a", "t", "e">>,
       <<"p", "r", "o", "v", "i", "n", "c", "e">>,
       <<"e", "m", "a", "i", "l">>,
       <<"p", "h", "o", "n", "e">>,
       <<"w", "e", "i", "g", "h", "t">>,
       <<"d", "i", "m", "e", "n", "s", "i", "o", "n">>,
       <<"l", "e", "n", "g", "t", "h">>,
       <<"w", "i", "d", "t", "h">>,
       <<"h", "e", "i", "g", "h", "t">>,
       <<"s", "e", "n", "d", "c", "l", "o", "u", "d">>,
       <<"l", "a", "b", "e", "l">>,
       <<"c", "a", "r", "r", "i", "e", "r">>,
       <<"s", "e", "r", "v", "i", "c", "e">>,
       <<"h", "s">>,
       <<"h", "s", "c", "o", "d", "e">>,
       <<"c", "u", "s", "t", "o", "m", "s">>,
       <<"d", "d", "p">>,
       <<"d", "a", "p">>,
       <<"c", "o", "d">>,
       <<"c", "o", "u", "n", "t", "r", "y">>,
       <<"v", "a", "t">>,
       <<"e", "o", "r", "i">> >>


(***************************************************************************)
(* Matching.  A match is [item |-> id, score |-> hundredths].              *)
(***************************************************************************)
\* function normalize(s)
normalize(s) == trim(replaceWhitespaceRuns(toLowerCase(s)))

\* the try { new RegExp(p, "i"); re.test(raw) } catch {} of both matchers
patternHits(p, raw) == ~RegExpThrows(p) /\ RegExpTest(p, raw)

\* scoreMatch with the pattern score of the refined handler (0.95)
scoreMatchPattern95(errorText, it) ==
    LET raw == errorText
        t == normalize(raw)
        title == normalize(TitleOf(it))
    IN  IF \E i \in 1..Len(PatternsOf(it)) : patternHits(PatternsOf(it)[i], raw)
        THEN 95
        ELSE IF title # <<>> /\ includes(t, title) THEN 85
        ELSE 0

\* function scoreMatch(errorText, item)
scoreMatch(errorText, it) ==
    LET raw == errorText
        t == normalize(raw)
        title == normalize(TitleOf(it))
    IN  IF \E i \in 1..Len(PatternsOf(it)) : patternHits(PatternsOf(it)[i], raw)
        THEN 100
        ELSE IF title # <<>> /\ includes(t, title) THEN 85
        ELSE 0

MaxScore(ms) == CHOOSE s \in {ms[i].score : i \in 1..Len(ms)} :
                    \A i \in 1..Len(ms) : ms[i].score <= s

\* the list left in KB order (the sort dropped)
unsortedMatches(ms) == ms

\* ms.sort((a, b) => b.score - a.score): descending, stable
RECURSIVE sortByScoreDesc(_)
sortByScoreDesc(ms) ==
    IF ms = <<>> THEN <<>>
    ELSE LET top == MaxScore(ms)
         IN  SelectSeq(ms, LAMBDA m : m.score = top)
             \o sortByScoreDesc(SelectSeq(ms, LAMBDA m : m.score # top))

\* xs.slice(0, n)
slice(xs, n) == SubSeq(xs, 1, Min(n, Len(xs)))

\* kb.items.map((item) => ({ item, score: scoreMatch(errorText, item) }))
basicScored(items, errorText) ==
    [i \in 1..Len(items) |-> [item |-> items[i], score |-> scoreMatch(errorText, items[i])]]

\* the matches of the OLI_MATCH_ERROR handler
basicMatches(items, errorText) ==
    slice(sortByScoreDesc(SelectSeq(basicScored(items, errorText), LAMBDA x : x.score > 0)), 3)

\* const norm = (x) => String(x || "").toLowerCase().replace(/\s+/g, " ").trim()
norm(x) == trim(replaceWhitespaceRuns(toLowerCase(x)))

\* const normTokenize = (txt) => norm(txt).split(/[^a-z0-9_]+/g).filter(Boolean).flatMap(...)
normTokenize(txt) == flatMapSplitUnderscore(SplitRuns(norm(txt), <<>>, WordChars))

\* const isSpecificTitle = (t) => ...   (defined by the handler, never called)
isSpecificTitle(t) ==
    LET tn == norm(t)
        toks == flatMapSplitUnderscore(SplitRuns(tn, <<>>, WordChars))
    IN  IF tn = <<>> THEN FALSE
        ELSE Len(tn) >= 18 \/ Len(toks) >= 3

\* the filter predicate without its guard on an empty error text
isExactHitNoEmptyGuard(it, errorText) ==
    LET tNorm == norm(TitleOf(it))
        eNorm2 == norm(errorText)
    IN  IF tNorm = <<>> THEN FALSE
        ELSE tNorm = eNorm2 \/ includes(tNorm, eNorm2) \/ includes(eNorm2, tNorm)

\* the filter predicate of exactHits
isExactHit(it, errorText) ==
    LET tNorm == norm(TitleOf(it))
        eNorm2 == norm(errorText)
    IN  IF tNorm = <<>> \/ eNorm2 = <<>> THEN FALSE
        ELSE tNorm = eNorm2 \/ includes(tNorm, eNorm2) \/ includes(eNorm2, tNorm)

\* const exactHits = kb.items.filter(...).map(it => ({ item: it, score: 1.0 }))
exactHits(items, errorText) ==
    LET hits == SelectSeq(items, LAMBDA it : isExactHit(it, errorText))
    IN  [i \in 1..Len(hits) |-> [item |-> hits[i], score |-> 100]]

\* the pattern loop of scored: blank and wildcard patterns are skipped
patternScore(it, errorText) ==
    IF \E i \in 1..Len(PatternsOf(it)) :
          LET pp == trim(PatternsOf(it)[i])
          IN  /\ pp # <<>>
              /\ pp # DotStar
              /\ pp # AnchoredDotStar
              /\ patternHits(pp, errorText)
    THEN 95 ELSE 0

\* title containment
titleScore(it, errorText) ==
    LET tNorm == norm(TitleOf(it))
    IN  IF tNorm # <<>> /\ includes(norm(errorText), tNorm) THEN 85 ELSE 0

\* let hit = 0; for (const k of keywords) { ... if (eHit && tHit) hit++ }
keywordHits(it, errorText) ==
    LET eTokens == Range(normTokenize(errorText))
        tTokens == Range(normTokenize(TitleOf(it)))
    IN  Cardinality({i \in 1..Len(keywords) :
            LET k == keywords[i]
                kk == removeUnderscores(k)
            IN  /\ (k \in eTokens \/ kk \in eTokens)
                /\ (k \in tTokens \/ kk \in tTokens)})

\* 0.55 + Math.min(0.35, hit * 0.08) when hit > 0
keywordScore(it, errorText) ==
    LET hit == keywordHits(it, errorText)
    IN  IF hit > 0 THEN 55 + Min(35, hit * 8) ELSE 0

\* the score scored gives one entry
fuzzyScore(it, errorText) ==
    Max(Max(patternScore(it, errorText), titleScore(it, errorText)),
        keywordScore(it, errorText))

\* const scored = kb.items.map(...)
scored(items, errorText) ==
    [i \in 1..Len(items) |-> [item |-> items[i], score |-> fuzzyScore(items[i], errorText)]]

\* const fuzzy = scored.filter(x => x.score > 0).sort(...).slice(0, 5)
fuzzy(items, errorText) ==
    slice(sortByScoreDesc(SelectSeq(scored(items, errorText), LAMBDA x : x.score > 0)), 5)

\* matches: exactHits.length ? exactHits : fuzzy
refinedMatches(items, errorText) ==
    IF Len(exactHits(items, errorText)) # 0
    THEN exactHits(items, errorText)
    ELSE fuzzy(items, errorText)

(***************************************************************************)
(* The KB store and the message handlers.                                  *)
(*                                                                         *)
(* Each request is one run of a listener.  It is suspended at the awaits   *)
(* of getKB (the cache read, the remote fetch, the cache write, the        *)
(* bundled load); other requests run and the clock moves in between.  What *)
(* a storage call or a fetch yields is the environment's choice.  After    *)
(* getKB returns, the listener builds its response without suspending      *)
(* again, so the step that ends getKB also answers.                        *)
(*                                                                         *)
(*   now      Date.now()                                                   *)
(*   bundled  the entry list of the packaged errors.json                   *)
(*   storage  browser.storage.local's kb_cache                             *)
(*   pc, msg  where each request is, and the message it handles            *)
(*   writing  the kb_cache value of a storage.local.set in flight; its     *)
(*            items are getKB's local  remote                              *)
(*   kb       the snapshot getKB returned to the listener                  *)
(*   resp     the response the sender received                             *)
(*   io       the storage and network calls the request has made           *)
(*   lastSave the record of the last saveCache that completed              *)
(***************************************************************************)
\* const CACHE_TTL_MINUTES = 30
CACHE_TTL_MINUTES == 30

Minute == 60 * 1000

\* the clock when the model starts, and the step it advances by
StartTime == 30 * Minute

TickMs == 15 * Minute

MaxTicks == 3

Reqs == {"r1", "r2"}

V2Types == {"OLI_MATCH_ERROR_V2", "OLI_KB_STATUS_V2"}

\* the messages a listener handles (a status message carries no errorText)
MsgsOver(texts) ==
    {[type |-> t, errorText |-> e] : t \in {"OLI_MATCH_ERROR", "OLI_MATCH_ERROR_V2"}, e \in texts}
    \cup {[type |-> t, errorText |-> <<>>] : t \in {"OLI_KB_STATUS", "OLI_KB_STATUS_V2"}}

\* the messages the service model receives
ServiceMsgs == MsgsOver({Text0, Text2})

\* errors.json of the package, in the service model
BundledKB == <<1, 2, 3, 6>>

\* the entry lists a remote KB document may decode to
RemoteKBs == {<<>>, <<1, 4>>, <<7, 5, 8>>}

NoMsg == [type |-> "", errorText |-> <<>>]

NoKB == [items |-> <<>>, source |-> "", updatedAt |-> None]

\* a record stamped with the epoch instead of the current time
cacheRecordUnstamped(items, t) == [updatedAt |-> 0, items |-> items]

\* the kb_cache value saveCache builds: { updatedAt: new Date().toISOString(), items }
\* (an ISO string keeps the milliseconds, so a time stands for its string)
cacheRecord(items, t) == [updatedAt |-> t, items |-> items]

\* cacheFresh with the TTL taken in seconds (the factor 1000 dropped)
cacheFreshSeconds(c, t) ==
    LET ageMs == t - c.updatedAt
    IN  ageMs < CACHE_TTL_MINUTES * 60

\* function cacheFresh(c), at Date.now() = t
cacheFresh(c, t) ==
    LET ageMs == t - c.updatedAt
    IN  ageMs < CACHE_TTL_MINUTES * 60 * 1000

\* what browser.storage.local may hold under kb_cache when the worker starts
InitialCaches ==
    {None,
     Some(cacheRecord(<<>>, StartTime - TickMs)),
     Some(cacheRecord(<<5, 1>>, StartTime - TickMs)),
     Some(cacheRecord(<<5, 1>>, 0))}

\* the response each listener builds from the snapshot getKB returned
responseOf(m, snap) ==
    IF m.type = "OLI_MATCH_ERROR"
    THEN [ok |-> TRUE, matches |-> basicMatches(snap.items, m.errorText),
          kbSource |-> snap.source, kbUpdatedAt |-> snap.updatedAt]
    ELSE IF m.type = "OLI_MATCH_ERROR_V2"
    THEN [ok |-> TRUE, matches |-> refinedMatches(snap.items, m.errorText),
          kbSource |-> snap.source, kbUpdatedAt |-> snap.updatedAt,
          debugExactCount |-> Len(exactHits(snap.items, m.errorText)),
          debugExactTitles |->
              LET first == slice(exactHits(snap.items, m.errorText), 10)
              IN  [i \in 1..Len(first) |-> TitleOf(first[i].item)],
          debugNormError |-> slice(norm(m.errorText), 220)]
    ELSE [ok |-> TRUE, kbSource |-> snap.source, kbUpdatedAt |-> snap.updatedAt,
          count |-> Len(snap.items)]

\* getKB returns snap and the listener answers
answer(r, snap) ==
    /\ kb' = [kb EXCEPT ![r] = snap]
    /\ resp' = [resp EXCEPT ![r] = Some(responseOf(msg[r], snap))]
    /\ pc' = [pc EXCEPT ![r] = "done"]

\* getKB throws: the defineBackground listener has no try / catch (its promise
\* rejects), the V2 listener answers { ok: false, error: String(e?.message || e) }
throwFrom(r, message) ==
    /\ kb' = kb
    /\ IF msg[r].type \in V2Types
       THEN /\ pc' = [pc EXCEPT ![r] = "done"]
            /\ resp' = [resp EXCEPT ![r] = Some([ok |-> FALSE, error |-> message])]
       ELSE /\ pc' = [pc EXCEPT ![r] = "rejected"]
            /\ resp' = resp

Init ==
    /\ now = StartTime
    /\ bundled = BundledKB
    /\ storage \in InitialCaches
    /\ pc = [r \in Reqs |-> "idle"]
    /\ msg = [r \in Reqs |-> NoMsg]
    /\ writing = [r \in Reqs |-> None]
    /\ kb = [r \in Reqs |-> NoKB]
    /\ resp = [r \in Reqs |-> None]
    /\ io = [r \in Reqs |-> <<>>]
    /\ lastSave = None

\* time passes
Tick ==
    /\ now < StartTime + MaxTicks * TickMs
    /\ now' = now + TickMs
    /\ UNCHANGED <<bundled, storage, pc, msg, writing, kb, resp, io, lastSave>>

\* a message of msgs arrives and its listener runs up to the first await of getKB
ReceiveFrom(r, msgs) ==
    /\ pc[r] = "idle"
    /\ \E m \in msgs : msg' = [msg EXCEPT ![r] = m]
    /\ pc' = [pc EXCEPT ![r] = "loadCache"]
    /\ UNCHANGED <<now, bundled, storage, writing, kb, resp, io, lastSave>>

Receive(r) == ReceiveFrom(r, ServiceMsgs)

\* const c = await loadCache(); if (c && c.items?.length && cacheFresh(c)) return ...
LoadCache(r) ==
    /\ pc[r] = "loadCache"
    /\ \/ /\ io' = [io EXCEPT ![r] = Append(@, "cacheRead")]
          /\ IF storage # None /\ Len(storage[1].items) # 0 /\ cacheFresh(storage[1], now)
             THEN answer(r, [items |-> storage[1].items, source |-> "cache",
                             updatedAt |-> Some(storage[1].updatedAt)])
             ELSE /\ pc' = [pc EXCEPT ![r] = "loadRemote"]
                  /\ UNCHANGED <<kb, resp>>
       \/ /\ io' = [io EXCEPT ![r] = Append(@, "cacheReadFailed")]
          /\ throwFrom(r, "storage read failed")
    /\ UNCHANGED <<now, bundled, storage, msg, writing, lastSave>>

\* try { const remote = await loadRemote(); if (remote && remote.length) { saveCache(remote)
\* is called: it stamps the record and starts the write } } catch {}
\* The fetch is rejected, or answers with a status that is not ok, or with a body
\* that is not JSON, or with JSON null or a list.
LoadRemote(r) ==
    /\ pc[r] = "loadRemote"
    /\ \/ \E doc \in RemoteKBs :
             IF Len(doc) # 0
             THEN /\ io' = [io EXCEPT ![r] = Append(@, "fetchOk")]
                  /\ writing' = [writing EXCEPT ![r] = Some(cacheRecord(doc, now))]
                  /\ pc' = [pc EXCEPT ![r] = "saveCache"]
             ELSE /\ io' = [io EXCEPT ![r] = Append(@, "fetchFailed")]
                  /\ writing' = writing
                  /\ pc' = [pc EXCEPT ![r] = "loadBundled"]
       \/ \E failure \in {"rejected", "status not ok", "body not JSON", "null"} :
             /\ io' = [io EXCEPT ![r] = Append(@, "fetchFailed")]
             /\ writing' = writing
             /\ pc' = [pc EXCEPT ![r] = "loadBundled"]
    /\ UNCHANGED <<now, bundled, storage, msg, kb, resp, lastSave>>

\* await saveCache(remote) completes, inside the try;
\* return { items: remote, source: "remote", updatedAt: new Date().toISOString() }
SaveCache(r) ==
    /\ pc[r] = "saveCache"
    /\ writing' = [writing EXCEPT ![r] = None]
    /\ \/ /\ storage' = writing[r]
          /\ lastSave' = writing[r]
          /\ io' = [io EXCEPT ![r] = Append(@, "cacheWrite")]
          /\ answer(r, [items |-> writing[r][1].items, source |-> "remote",
                        updatedAt |-> Some(now)])
       \/ /\ io' = [io EXCEPT ![r] = Append(@, "cacheWriteFailed")]
          /\ pc' = [pc EXCEPT ![r] = "loadBundled"]
          /\ UNCHANGED <<storage, lastSave, kb, resp>>
    /\ UNCHANGED <<now, bundled, msg>>

\* const bundled = await loadBundledKB(); return { items: bundled, source: "bundled" }
LoadBundled(r) ==
    /\ pc[r] = "loadBundled"
    /\ \/ /\ io' = [io EXCEPT ![r] = Append(@, "bundledLoad")]
          /\ answer(r, [items |-> bundled, source |-> "bundled", updatedAt |-> None])
       \/ /\ io' = [io EXCEPT ![r] = Append(@, "bundledLoadFailed")]
          /\ throwFrom(r, "bundled load failed")
    /\ UNCHANGED <<now, bundled, storage, msg, writing, lastSave>>

\* the request is over; its listener's locals are gone
Close(r) ==
    /\ pc[r] \in {"done", "rejected"}
    /\ pc' = [pc EXCEPT ![r] = "idle"]
    /\ msg' = [msg EXCEPT ![r] = NoMsg]
    /\ kb' = [kb EXCEPT ![r] = NoKB]
    /\ resp' = [resp EXCEPT ![r] = None]
    /\ io' = [io EXCEPT ![r] = <<>>]
    /\ UNCHANGED <<now, bundled, storage, writing, lastSave>>

\* one step of request r
Step(r) ==
    \/ Receive(r)
    \/ LoadCache(r)
    \/ LoadRemote(r)
    \/ SaveCache(r)
    \/ LoadBundled(r)
    \/ Close(r)

\* requests that arrive one after the other
Next ==
    \/ Tick
    \/ Step("r1")

Spec == Init /\ [][Next]_vars

\* the messages of the overlapping requests: one of each listener
ConcMsgs ==
    {[type |-> "OLI_KB_STATUS", errorText |-> <<>>],
     [type |-> "OLI_MATCH_ERROR_V2", errorText |-> Text2]}

\* requests that overlap
ConcNext ==
    \/ Tick
    \/ \E r \in Reqs :
          \/ ReceiveFrom(r, ConcMsgs)
          \/ LoadCache(r)
          \/ LoadRemote(r)
          \/ SaveCache(r)
          \/ LoadBundled(r)
          \/ Close(r)

ConcSpec == Init /\ [][ConcNext]_vars

(***************************************************************************)
(* The matchers over every KB of the catalogue: a request that found no    *)
(* usable cache and no remote document loads the packaged KB, which is any *)
(* list of up to MaxKB distinct catalogue entries, and answers.            *)
(***************************************************************************)
MaxKB == 6

RECURSIVE Ascending(_)
Ascending(S) ==
    IF S = {} THEN <<>>
    ELSE LET m == CHOOSE x \in S : \A y \in S : x <= y
         IN  <<m>> \o Ascending(S \ {m})

Reverse(xs) == [i \in 1..Len(xs) |-> xs[Len(xs) + 1 - i]]

KBLists ==
    LET lists == {Ascending(S) : S \in {T \in SUBSET Items : Cardinality(T) <= MaxKB}}
    IN  lists \cup {Reverse(xs) : xs \in lists}

MatchInit ==
    /\ now = StartTime
    /\ bundled \in KBLists
    /\ storage = None
    /\ pc = [r \in Reqs |-> IF r = "r1" THEN "loadBundled" ELSE "idle"]
    /\ \E m \in MsgsOver(ErrorTexts) : msg = [r \in Reqs |-> IF r = "r1" THEN m ELSE NoMsg]
    /\ writing = [r \in Reqs |-> None]
    /\ kb = [r \in Reqs |-> NoKB]
    /\ resp = [r \in Reqs |-> None]
    /\ io = [r \in Reqs |-> IF r = "r1" THEN <<"cacheRead", "fetchFailed">> ELSE <<>>]
    /\ lastSave = None

MatchNext == LoadBundled("r1")

MatchSpec == MatchInit /\ [][MatchNext]_vars

(***************************************************************************)
(* Properties of the KB store and the service boundary (checked under      *)
(* Spec).                                                                  *)
(***************************************************************************)
Finished(r) == pc[r] \in {"done", "rejected"}

Sources == {"cache", "remote", "bundled"}

TtlMs == 30 * 60 * 1000

\* the request's cache read succeeded in this step
ReadsCache(r) == pc[r] = "loadCache" /\ io'[r] = Append(io[r], "cacheRead")

\* C1: getKB never throws: every call returns a snapshot whose source is cache,
\* remote or bundled, whatever the cache read, the remote fetch and the bundled
\* load do; and a call that found no usable cache and whose remote fetch failed
\* returns the bundled items with source = bundled and no updatedAt.
C1_GetKBNeverThrows ==
    \A r \in Reqs :
        Finished(r) =>
            /\ kb[r].source \in Sources
            /\ (io[r] = <<"cacheRead", "fetchFailed", "bundledLoad">>
                    \/ io[r] = <<"cacheRead", "fetchFailed", "bundledLoadFailed">>)
               => kb[r] = [items |-> bundled, source |-> "bundled", updatedAt |-> None]

\* C2: a call whose cache read finds a record with a non-empty item list and an
\* age strictly below 30 minutes returns exactly the cached items with source =
\* cache and the cached updatedAt, and the cache read is the only storage or
\* network call it makes: no fetch, no bundled load, no cache write.
C2_FreshCacheIsReturned ==
    [][\A r \in Reqs :
          (/\ ReadsCache(r)
           /\ storage # None
           /\ Len(storage[1].items) > 0
           /\ now - storage[1].updatedAt < TtlMs)
          => /\ kb'[r] = [items |-> storage[1].items, source |-> "cache",
                          updatedAt |-> Some(storage[1].updatedAt)]
             /\ pc'[r] = "done"
             /\ io'[r] = <<"cacheRead">>
             /\ storage' = storage]_vars

\* C2 witness: a call answered from a cache record of age 15 minutes
C2_Witness ==
    \E r \in Reqs :
        /\ pc[r] = "done"
        /\ kb[r].source = "cache"
        /\ io[r] = <<"cacheRead">>
        /\ storage # None
        /\ now - storage[1].updatedAt = 15 * Minute

\* C3 as stated: a call that found no usable cache and fetched a non-empty
\* remote list persists it and returns it with source = remote.
C3_RemoteSuccessReturnsRemote ==
    \A r \in Reqs :
        (Finished(r) /\ Len(io[r]) >= 2 /\ io[r][2] = "fetchOk")
        => /\ kb[r].source = "remote"
           /\ lastSave # None
           /\ lastSave[1].items = kb[r].items

\* C3 amended: after a successful fetch of a non-empty list the record to write
\* is stamped with the time saveCache is called; when the write succeeds the
\* cache holds exactly that record and the call returns the list with source =
\* remote; when the write fails the cache is unchanged and the call goes on to
\* the bundled KB; and a later call whose cache read finds the last saved record,
\* younger than the TTL, returns its items with source = cache.
C3_RemoteSavedThenServedFromCache ==
    [][\A r \in Reqs :
          /\ (pc[r] = "loadRemote" /\ io'[r] = Append(io[r], "fetchOk"))
             => /\ pc'[r] = "saveCache"
                /\ writing'[r] # None
                /\ writing'[r][1].updatedAt = now
                /\ writing'[r][1].items \in RemoteKBs \ {<<>>}
          /\ (pc[r] = "saveCache" /\ io'[r] = Append(io[r], "cacheWrite"))
             => /\ storage' = Some([updatedAt |-> writing[r][1].updatedAt,
                                    items |-> writing[r][1].items])
                /\ lastSave' = storage'
                /\ pc'[r] = "done"
                /\ kb'[r].items = writing[r][1].items
                /\ kb'[r].source = "remote"
                /\ kb'[r].updatedAt = Some(now)
          /\ (pc[r] = "saveCache" /\ io'[r] = Append(io[r], "cacheWriteFailed"))
             => /\ storage' = storage
                /\ pc'[r] = "loadBundled"
          /\ (ReadsCache(r) /\ lastSave # None /\ storage = lastSave
                /\ now - lastSave[1].updatedAt < TtlMs)
             => /\ pc'[r] = "done"
                /\ kb'[r].items = lastSave[1].items
                /\ kb'[r].source = "cache"]_vars

\* C3 witness: a remote list was saved by an earlier call and this call, made
\* later within the TTL, is answered with those items from the cache
C3_Witness ==
    \E r \in Reqs :
        /\ pc[r] = "done"
        /\ kb[r].source = "cache"
        /\ lastSave # None
        /\ storage = lastSave
        /\ kb[r].items = lastSave[1].items
        /\ now > lastSave[1].updatedAt

\* C4: no match or status operation throws outward: every request that is over
\* has received a response, which is an ok response or { ok: false, error }.
C4_NoOperationThrowsOutward ==
    \A r \in Reqs :
        Finished(r) =>
            /\ pc[r] # "rejected"
            /\ resp[r] # None
            /\ resp[r][1].ok \/ "error" \in DOMAIN resp[r][1]

(***************************************************************************)
(* Properties of the matchers (checked under MatchSpec).                   *)
(***************************************************************************)
\* request r received an ok response to a message of this type
Answered(r, type) ==
    /\ pc[r] = "done"
    /\ msg[r].type = type
    /\ resp[r] # None
    /\ resp[r][1].ok

MatchTypes == {"OLI_MATCH_ERROR", "OLI_MATCH_ERROR_V2"}

Returned(ms, it) == \E j \in 1..Len(ms) : ms[j].item = it

\* the normalized error text contains the normalized, non-empty title
TitleContained(it, e) ==
    norm(TitleOf(it)) # <<>> /\ includes(norm(e), norm(TitleOf(it)))

\* the title relation of the exact tier
TitleRelated(it, e) ==
    /\ norm(TitleOf(it)) # <<>>
    /\ norm(e) # <<>>
    /\ \/ norm(TitleOf(it)) = norm(e)
       \/ includes(norm(TitleOf(it)), norm(e))
       \/ includes(norm(e), norm(TitleOf(it)))

\* an exact hit as the specification defines it: related and non-trivial title
SpecExactHit(it, e) == TitleRelated(it, e) /\ isSpecificTitle(TitleOf(it))

\* a title shorter than 18 characters with fewer than 3 tokens, e.g. "Error"
TrivialTitle(it) ==
    Len(norm(TitleOf(it))) < 18 /\ Len(normTokenize(TitleOf(it))) < 3

Wildcards == {DotStar, AnchoredDotStar}

OnlyWildcards(it) ==
    \A i \in 1..Len(PatternsOf(it)) : PatternsOf(it)[i] \in Wildcards

\* C5: in the refined match, when some entry is an exact hit for the error text
\* the result holds exact hits only, each with score 1.0.
C5_ExactHitsReturnedExclusively ==
    \A r \in Reqs :
        Answered(r, "OLI_MATCH_ERROR_V2") =>
            LET k == kb[r].items
                e == msg[r].errorText
                ms == resp[r][1].matches
            IN  (\E i \in 1..Len(k) : SpecExactHit(k[i], e))
                => \A j \in 1..Len(ms) :
                      ms[j].score = 100 /\ SpecExactHit(ms[j].item, e)

\* C6: the refined match never returns an entry with a trivial title (shorter
\* than 18 characters and fewer than 3 tokens) as an exact hit.
C6_TrivialTitleNeverExactHit ==
    \A r \in Reqs :
        Answered(r, "OLI_MATCH_ERROR_V2") =>
            (resp[r][1].debugExactCount > 0
             => \A j \in 1..Len(resp[r][1].matches) :
                   ~TrivialTitle(resp[r][1].matches[j].item))

\* C7: the basic match returns at most 3 matches and the refined match at most 5.
C7_MatchListBounded ==
    \A r \in Reqs :
        /\ Answered(r, "OLI_MATCH_ERROR") => Len(resp[r][1].matches) <= 3
        /\ Answered(r, "OLI_MATCH_ERROR_V2") => Len(resp[r][1].matches) <= 5

\* C8: in both match operations an entry whose only patterns are the wildcards
\* .* and ^.*$ is returned only on a signal other than its patterns: title
\* containment, keyword overlap or (refined) the exact tier.
C8_WildcardNeverContributes ==
    \A r \in Reqs : \A type \in MatchTypes :
        Answered(r, type) =>
            LET e == msg[r].errorText
                ms == resp[r][1].matches
            IN  \A j \in 1..Len(ms) :
                    OnlyWildcards(ms[j].item)
                    => \/ TitleContained(ms[j].item, e)
                       \/ keywordHits(ms[j].item, e) > 0
                       \/ (type = "OLI_MATCH_ERROR_V2" /\ TitleRelated(ms[j].item, e))

AnyPatternHits(it, e) ==
    \E i \in 1..Len(PatternsOf(it)) :
        ~RegExpThrows(PatternsOf(it)[i]) /\ RegExpTest(PatternsOf(it)[i], e)

C10_EmptyTextNoMatches ==
    \A r \in Reqs : \A type \in MatchTypes :
        (Answered(r, type) /\ msg[r].errorText = <<>>)
        => resp[r][1].matches = <<>>

\* the pattern compiles and matches the empty string
MatchesEmpty(p) == ~RegExpThrows(p) /\ RegExpTest(p, <<>>)

\* C10 amended: on an empty error text each operation returns exactly the
\* entries one of whose tested patterns matches the empty string, in KB order:
\* the basic match tests every pattern (score 1.0, at most 3 entries), the
\* refined match skips blank and wildcard patterns (score 0.95, at most 5); so
\* the list is empty when the KB has no such pattern.
C10_EmptyTextMatchesOnlyEmptyPatterns ==
    \A r \in Reqs :
        LET k == kb[r].items
            basicHit(it) == \E i \in 1..Len(PatternsOf(it)) : MatchesEmpty(PatternsOf(it)[i])
            refinedHit(it) ==
                \E i \in 1..Len(PatternsOf(it)) :
                    /\ trim(PatternsOf(it)[i]) \notin (Wildcards \cup {<<>>})
                    /\ MatchesEmpty(trim(PatternsOf(it)[i]))
        IN  /\ (Answered(r, "OLI_MATCH_ERROR") /\ msg[r].errorText = <<>>)
               => resp[r][1].matches =
                     [i \in 1..Min(3, Len(SelectSeq(k, basicHit))) |->
                         [item |-> SelectSeq(k, basicHit)[i], score |-> 100]]
            /\ (Answered(r, "OLI_MATCH_ERROR_V2") /\ msg[r].errorText = <<>>)
               => resp[r][1].matches =
                     [i \in 1..Min(5, Len(SelectSeq(k, refinedHit))) |->
                         [item |-> SelectSeq(k, refinedHit)[i], score |-> 95]]

\* C10 witness: an empty error text against a non-empty KB without a pattern
\* that matches the empty string: the refined match answers with no match
C10_Witness ==
    \E r \in Reqs :
        /\ Answered(r, "OLI_MATCH_ERROR_V2")
        /\ msg[r].errorText = <<>>
        /\ Len(kb[r].items) >= 3
        /\ resp[r][1].matches = <<>>

\* the place of entry it in the KB list k (KB ids are distinct)
PositionIn(k, it) == CHOOSE i \in 1..Len(k) : k[i] = it

\* C11: in every match response (basic or refined) each score lies in [0,1], no
\* returned entry has score 0, and the list is sorted non-increasing by score
\* with entries of equal score kept in their original KB order.
C11_ScoresBoundedSortedStable ==
    \A r \in Reqs : \A type \in MatchTypes :
        Answered(r, type) =>
            LET ms == resp[r][1].matches
                k == kb[r].items
            IN  /\ \A j \in 1..Len(ms) :
                      /\ ms[j].score > 0
                      /\ ms[j].score <= 100
                      /\ \E i \in 1..Len(k) : k[i] = ms[j].item
                /\ \A i, j \in 1..Len(ms) :
                      i < j =>
                         /\ ms[i].score >= ms[j].score
                         /\ ms[i].score = ms[j].score
                            => PositionIn(k, ms[i].item) < PositionIn(k, ms[j].item)

\* C11 witness: a response of three or more matches in which the sort moved an
\* entry ahead of one that precedes it in the KB, and two entries tie
C11_Witness ==
    \E r \in Reqs : \E type \in MatchTypes :
        /\ Answered(r, type)
        /\ LET ms == resp[r][1].matches
               k == kb[r].items
           IN  /\ Len(ms) >= 3
               /\ \E i, j \in 1..Len(ms) :
                     /\ i < j
                     /\ ms[i].score > ms[j].score
                     /\ PositionIn(k, ms[i].item) > PositionIn(k, ms[j].item)
               /\ \E i, j \in 1..Len(ms) :
                     /\ i < j
                     /\ ms[i].score = ms[j].score
                     /\ ms[i].score < 100

\* the vocabulary terms, in either spelling (house_number, housenumber)
VocabularyTerms ==
    {keywords[i] : i \in 1..Len(keywords)}
    \cup {removeUnderscores(keywords[i]) : i \in 1..Len(keywords)}

\* the number of distinct vocabulary terms present both in the tokens of the
\* error text and in the tokens of the title
DistinctTermsInBoth(it, e) ==
    Cardinality(VocabularyTerms \cap Range(normTokenize(e))
                                \cap Range(normTokenize(TitleOf(it))))

\* the entry has neither a pattern match nor a title-containment match
KeywordOnly(it, e) == patternScore(it, e) = 0 /\ titleScore(it, e) = 0

\* the refined response came from the fuzzy tier
FuzzyTier(r) == Answered(r, "OLI_MATCH_ERROR_V2") /\ resp[r][1].debugExactCount = 0

\* C12: in the refined fuzzy tier an entry with no pattern and no
\* title-containment match is returned only when hits > 0, where hits is the
\* number of distinct vocabulary terms present in both the error-text tokens and
\* the title tokens, and its score is 0.55 + min(0.35, hits * 0.08): 0.63 for
\* exactly one term, never more than 0.90.
C12_KeywordSignal ==
    \A r \in Reqs :
        FuzzyTier(r) =>
            LET ms == resp[r][1].matches
                e == msg[r].errorText
            IN  \A j \in 1..Len(ms) :
                    KeywordOnly(ms[j].item, e) =>
                        LET hits == DistinctTermsInBoth(ms[j].item, e)
                        IN  /\ hits > 0
                            /\ ms[j].score = 55 + Min(35, hits * 8)
                            /\ hits = 1 => ms[j].score = 63
                            /\ ms[j].score <= 90

(***************************************************************************)
(* Properties of overlapping requests (checked under ConcSpec).            *)
(***************************************************************************)
\* the non-empty entry lists a successful remote fetch yields
FetchedLists == {doc \in RemoteKBs : Len(doc) # 0}

\* c is one complete { updatedAt, items } record holding the list of one fetch
CompleteRemoteRecord(c) ==
    /\ DOMAIN c = {"updatedAt", "items"}
    /\ c.updatedAt \in StartTime..now
    /\ c.items \in FetchedLists
    /\ c.items # bundled

\* snap is a complete snapshot: a source with the items and the time it implies
CompleteSnapshot(snap) ==
    /\ snap.source \in Sources
    /\ snap.source = "bundled" => snap.items = bundled /\ snap.updatedAt = None
    /\ snap.source = "remote" => snap.items \in FetchedLists /\ snap.updatedAt # None
    /\ snap.source = "cache" => Len(snap.items) # 0 /\ snap.updatedAt # None

\* C13: under any interleaving of overlapping requests, which are suspended only
\* at the cache read, the remote fetch, the cache write and the bundled load, the
\* cache is in every reachable state either its initial value or the one complete
\* record of the last write that completed, holding the non-empty list of a
\* single successful fetch (never a mix, never the bundled items), and every
\* request that is over has returned a complete snapshot.
C13_RacingRefreshesKeepCacheWhole ==
    /\ lastSave = None => storage \in InitialCaches
    /\ lastSave # None => storage = lastSave /\ CompleteRemoteRecord(storage[1])
    /\ \A r \in Reqs : Finished(r) => CompleteSnapshot(kb[r])

====
